---- MODULE Spec2Model ----
(***************************************************************************)
(* Geofence taxi service: the zone catalog (config/zones), the geofence    *)
(* engine (services/geofence) and the vehicle tracker                      *)
(* (services/vehicleTracker), with the GET /api/vehicle/:vehicleId route.  *)
(*                                                                         *)
(* Coordinates are integers in units of 0.0001 degree (40.7128 is 407128), *)
(* which represents every coordinate of the predefined catalog exactly.    *)
(* The Map vehicleStore is the function vehicleStore together with the    *)
(* insertion order of its keys, keyOrder.                                  *)
(* Distances are compared through their squares (sqrt is monotonic), and   *)
(* the division of the ray-casting test is compared by cross               *)
(* multiplication, so both tests are the exact real-number tests.          *)
(***************************************************************************)
EXTENDS Integers, Sequences, FiniteSets, TLC

VARIABLES zones, vehicleStore, keyOrder, lastCall, generated, calls, onRoute,
          pending, running, accepted

vars == <<zones, vehicleStore, keyOrder, lastCall, generated, calls, onRoute,
          pending, running, accepted>>

\* The requests in flight, the handler calls under way and the order in
\* which requests were handed to the handler.
handlerVars == <<pending, running, accepted>>

(***************************************************************************)
(* JavaScript values.                                                      *)
(***************************************************************************)

\* null of a `string | null` value; no zone of the model is named so.
null == "<null>"

\* null of a `VehicleStatus | null` value.
nullStatus == << >>

\* a || null on a `string | null`: the empty string is falsy.
OrNull(a) == IF a = null \/ a = "" THEN null ELSE a

Max(a, b) == IF a >= b THEN a ELSE b

Min(a, b) == IF a <= b THEN a ELSE b

\* Array.prototype.slice(begin): a negative begin counts from the end.
Slice(arr, begin) ==
  LET len == Len(arr)
      k == IF begin < 0 THEN Max(len + begin, 0) ELSE Min(begin, len)
  IN SubSeq(arr, k + 1, len)

(***************************************************************************)
(* Bounds of the exploration.                                              *)
(***************************************************************************)

\* Every behaviour of at most FreeCalls arbitrary calls is explored.
FreeCalls == 3

\* One long behaviour, vehicle v1 driving Route, is explored to RouteCalls calls.
RouteCalls == 46

Vehicles == {"v1", "v2"}

Timestamps == {1, 2}

P_downtown == [latitude |-> 407128, longitude |-> -740060]

P_downtown2 == [latitude |-> 407135, longitude |-> -740055]

P_harbor == [latitude |-> 406995, longitude |-> -740087]

P_airport == [latitude |-> 407769, longitude |-> -738740]

\* Outside every zone.
P_outside == [latitude |-> 407400, longitude |-> -739500]

\* Outside every predefined zone, exactly 0.1 degree from P_outside and more
\* than 0.1 degree from the other fixes.
P_suburb == [latitude |-> 408200, longitude |-> -740100]

\* The fixes of the arbitrary calls.
Points == {P_downtown, P_harbor, P_outside, P_suburb}

Route == <<P_downtown, P_downtown2, P_harbor, P_airport, P_outside>>

(***************************************************************************)
(* config/zones                                                            *)
(***************************************************************************)

PredefinedZones ==
  << [id |-> "downtown", name |-> "Downtown", type |-> "polygon",
      coordinates |-> << <<407128, -740060>>, <<407150, -740060>>,
                         <<407150, -740040>>, <<407128, -740040>> >>],
     [id |-> "airport", name |-> "Airport", type |-> "circle",
      center |-> <<407769, -738740>>, radius |-> 100],
     [id |-> "harbor", name |-> "Harbor", type |-> "polygon",
      coordinates |-> << <<407061, -740087>>, <<407061, -739960>>,
                         <<406995, -739960>>, <<406995, -740087>> >>],
     [id |-> "stadium", name |-> "Stadium", type |-> "circle",
      center |-> <<407282, -739942>>, radius |-> 80] >>

\* The zones offered to addZone: one overlapping Downtown, one with an empty
\* name and one with the name of a predefined zone (both around P_suburb),
\* and the predefined Downtown itself (an id that may already exist).
AddableZones ==
  { [id |-> "midtown", name |-> "Midtown", type |-> "circle",
     center |-> <<407135, -740055>>, radius |-> 20],
    [id |-> "unnamed", name |-> "", type |-> "circle",
     center |-> <<408200, -740100>>, radius |-> 10],
    [id |-> "downtown2", name |-> "Downtown", type |-> "circle",
     center |-> <<408200, -740100>>, radius |-> 15],
    PredefinedZones[1] }

RemovableIds == {"downtown", "harbor", "unnamed"}

\* getAllZones()
getAllZones == zones

addZone(zs, zone) ==
  IF \E i \in 1..Len(zs) : zs[i].id = zone.id THEN zs ELSE Append(zs, zone)

removeZone(zs, zoneId) == SelectSeq(zs, LAMBDA z : z.id # zoneId)

(***************************************************************************)
(* services/geofence                                                       *)
(***************************************************************************)

\* The square of calculateDistance.
calculateDistanceSq(point1, point2) ==
  LET latDiff == point1.latitude - point2.latitude
      lonDiff == point1.longitude - point2.longitude
  IN latDiff * latDiff + lonDiff * lonDiff

\* isPointInCircle with the boundary excluded.
isPointInCircle_Strict(point, center, radius) ==
  LET distanceSq == calculateDistanceSq(point,
                      [latitude |-> center[1], longitude |-> center[2]])
  IN radius > 0 /\ distanceSq < radius * radius

\* distance <= radius
isPointInCircle(point, center, radius) ==
  LET distanceSq == calculateDistanceSq(point,
                      [latitude |-> center[1], longitude |-> center[2]])
  IN radius >= 0 /\ distanceSq <= radius * radius

\* intersect with an edge counted at both of its ends.
intersect_BothEnds(x, y, xi, yi, xj, yj) ==
  /\ (yi > y) # (yj >= y)
  /\ yi # yj
  /\ IF yj - yi > 0
       THEN (x - xi) * (yj - yi) < (xj - xi) * (y - yi)
       ELSE (x - xi) * (yj - yi) > (xj - xi) * (y - yi)

\* yi > y !== yj > y && x < ((xj - xi) * (y - yi)) / (yj - yi) + xi
intersect(x, y, xi, yi, xj, yj) ==
  /\ (yi > y) # (yj > y)
  /\ IF yj - yi > 0
       THEN (x - xi) * (yj - yi) < (xj - xi) * (y - yi)
       ELSE (x - xi) * (yj - yi) > (xj - xi) * (y - yi)

RECURSIVE rayCast(_, _, _, _, _, _)
\* for (i = 0, j = length - 1; i < length; j = i++), indices from 1 here
rayCast(x, y, polygonCoordinates, i, j, inside) ==
  IF i > Len(polygonCoordinates) THEN inside
  ELSE LET xi == polygonCoordinates[i][1]
           yi == polygonCoordinates[i][2]
           xj == polygonCoordinates[j][1]
           yj == polygonCoordinates[j][2]
       IN rayCast(x, y, polygonCoordinates, i + 1, i,
                  IF intersect(x, y, xi, yi, xj, yj) THEN ~inside ELSE inside)

\* isPointInPolygon with latitude and longitude exchanged.
isPointInPolygon_Swapped(point, polygonCoordinates) ==
  rayCast(point.longitude, point.latitude, polygonCoordinates,
          1, Len(polygonCoordinates), FALSE)

isPointInPolygon(point, polygonCoordinates) ==
  rayCast(point.latitude, point.longitude, polygonCoordinates,
          1, Len(polygonCoordinates), FALSE)

isPointInZone(point, zone) ==
  IF zone.type = "circle" /\ "center" \in DOMAIN zone /\ "radius" \in DOMAIN zone
    THEN isPointInCircle(point, zone.center, zone.radius)
  ELSE IF zone.type = "polygon" /\ "coordinates" \in DOMAIN zone
    THEN isPointInPolygon(point, zone.coordinates)
  ELSE FALSE

\* 0.1 degree
MAX_REALISTIC_JUMP == 1000

\* isAnomalousMovement with distance >= MAX_REALISTIC_JUMP.
isAnomalousMovement_Inclusive(previousLocation, currentLocation) ==
  calculateDistanceSq(previousLocation, currentLocation)
    >= MAX_REALISTIC_JUMP * MAX_REALISTIC_JUMP

\* distance > MAX_REALISTIC_JUMP, for a previous location that exists
isAnomalousMovement(previousLocation, currentLocation) ==
  calculateDistanceSq(previousLocation, currentLocation)
    > MAX_REALISTIC_JUMP * MAX_REALISTIC_JUMP

(***************************************************************************)
(* services/vehicleTracker                                                 *)
(***************************************************************************)

MAX_EVENTS_PER_VEHICLE == 50

RECURSIVE firstMatch(_, _, _)
\* for (const zone of zones) if (isPointInZone(point, zone)) return zone.name
firstMatch(zs, point, i) ==
  IF i > Len(zs) THEN null
  ELSE IF isPointInZone(point, zs[i]) THEN zs[i].name
  ELSE firstMatch(zs, point, i + 1)

RECURSIVE lastMatch(_, _, _, _)
lastMatch(zs, point, i, found) ==
  IF i > Len(zs) THEN found
  ELSE lastMatch(zs, point, i + 1,
                 IF isPointInZone(point, zs[i]) THEN zs[i].name ELSE found)

\* findCurrentZone without the early return: the last matching zone wins.
findCurrentZone_LastMatch(zs, point) == lastMatch(zs, point, 1, null)

findCurrentZone(zs, point) == firstMatch(zs, point, 1)

\* The events pushed by one update (lines 548-590).
zoneEvents(previousZone, newZone, timestamp) ==
  IF previousZone # newZone
    THEN IF previousZone # null /\ newZone # null
           THEN << [type |-> "exit", zone |-> previousZone, timestamp |-> timestamp],
                   [type |-> "enter", zone |-> newZone, timestamp |-> timestamp] >>
         ELSE IF previousZone # null
           THEN << [type |-> "exit", zone |-> previousZone, timestamp |-> timestamp] >>
         ELSE IF newZone # null
           THEN << [type |-> "enter", zone |-> newZone, timestamp |-> timestamp] >>
         ELSE << >>
    ELSE << >>

\* capEvents with the test off by one: a history of 51 events is kept.
capEvents_OffByOne(events) ==
  IF Len(events) > MAX_EVENTS_PER_VEHICLE + 1
    THEN Slice(events, -MAX_EVENTS_PER_VEHICLE)
    ELSE events

\* capEvents keeping the first 50 events, slice(0, 50), instead of the last.
capEvents_KeepOldest(events) ==
  IF Len(events) > MAX_EVENTS_PER_VEHICLE
    THEN SubSeq(events, 1, MAX_EVENTS_PER_VEHICLE)
    ELSE events

\* Keep only recent events (lines 593-595).
capEvents(events) ==
  IF Len(events) > MAX_EVENTS_PER_VEHICLE
    THEN Slice(events, -MAX_EVENTS_PER_VEHICLE)
    ELSE events

\* The previous zone an update compares with (line 522).
previousZoneOf(store, vehicleId) ==
  IF vehicleId \in DOMAIN store
    THEN OrNull(store[vehicleId].location.currentZone)
    ELSE null

\* Whether an update warns of an anomalous movement (lines 509-518).
warnsAnomaly(store, vehicleId, currentLocation) ==
  /\ vehicleId \in DOMAIN store
  /\ isAnomalousMovement(store[vehicleId].location, currentLocation)

\* Lines 520-607 of trackVehicleLocation: the vehicle's new data, the events
\* pushed and the result returned.
applyLocation(zs, store, vehicleId, latitude, longitude, timestamp) ==
  LET currentLocation == [latitude |-> latitude, longitude |-> longitude]
      newZone == findCurrentZone(zs, currentLocation)
      previousZone == previousZoneOf(store, vehicleId)
      newLocation == [vehicleId |-> vehicleId, latitude |-> latitude,
                      longitude |-> longitude, timestamp |-> timestamp,
                      currentZone |-> newZone]
      oldEvents == IF vehicleId \in DOMAIN store
                     THEN store[vehicleId].events ELSE << >>
      pushed == zoneEvents(previousZone, newZone, timestamp)
      base == [vehicleId |-> vehicleId, latitude |-> latitude,
               longitude |-> longitude, currentZone |-> newZone,
               eventTriggered |-> pushed # << >>]
  IN [data |-> [location |-> newLocation,
                events |-> capEvents(oldEvents \o pushed)],
      pushed |-> pushed,
      result |-> IF pushed # << >>
                   THEN base @@ [event |-> pushed[Len(pushed)]]
                   ELSE base]

\* trackVehicleLocation returning early on an anomalous movement: the fix is
\* filtered out, the stored state kept.
trackVehicleLocation_Filtering(zs, store, vehicleId, latitude, longitude, timestamp) ==
  IF warnsAnomaly(store, vehicleId, [latitude |-> latitude, longitude |-> longitude])
    THEN [warnings |-> 1,
          data |-> store[vehicleId],
          pushed |-> << >>,
          result |-> [vehicleId |-> vehicleId, latitude |-> latitude,
                      longitude |-> longitude,
                      currentZone |-> previousZoneOf(store, vehicleId),
                      eventTriggered |-> FALSE]]
    ELSE [warnings |-> 0]
           @@ applyLocation(zs, store, vehicleId, latitude, longitude, timestamp)

\* trackVehicleLocation ignoring a fix older than the stored one.
trackVehicleLocation_DropsStale(zs, store, vehicleId, latitude, longitude, timestamp) ==
  IF vehicleId \in DOMAIN store /\ timestamp < store[vehicleId].location.timestamp
    THEN [warnings |-> 0,
          data |-> store[vehicleId],
          pushed |-> << >>,
          result |-> [vehicleId |-> vehicleId, latitude |-> latitude,
                      longitude |-> longitude,
                      currentZone |-> previousZoneOf(store, vehicleId),
                      eventTriggered |-> FALSE]]
    ELSE [warnings |-> IF warnsAnomaly(store, vehicleId,
                            [latitude |-> latitude, longitude |-> longitude])
                         THEN 1 ELSE 0]
           @@ applyLocation(zs, store, vehicleId, latitude, longitude, timestamp)

\* trackVehicleLocation: the warnings logged, then the update.
trackVehicleLocation(zs, store, vehicleId, latitude, longitude, timestamp) ==
  [warnings |-> IF warnsAnomaly(store, vehicleId,
                     [latitude |-> latitude, longitude |-> longitude])
                  THEN 1 ELSE 0]
    @@ applyLocation(zs, store, vehicleId, latitude, longitude, timestamp)

\* recentEvents as slice(0, 10): the first ten events.
recentEvents_First(events) == SubSeq(events, 1, Min(10, Len(events)))

\* events.slice(-10)
recentEvents(events) == Slice(events, -10)

getVehicleStatus(store, vehicleId) ==
  IF vehicleId \notin DOMAIN store THEN nullStatus
  ELSE LET location == store[vehicleId].location
           events == store[vehicleId].events
       IN [vehicleId |-> vehicleId,
           currentZone |-> OrNull(location.currentZone),
           lastLocationUpdate |-> location.timestamp,
           lastLocation |-> [latitude |-> location.latitude,
                             longitude |-> location.longitude],
           recentEvents |-> recentEvents(events),
           totalEventsTracked |-> Len(events)]

RECURSIVE collectStatuses_InZoneOnly(_, _, _)
\* collectStatuses pushing only the statuses with a current zone.
collectStatuses_InZoneOnly(store, keys, i) ==
  IF i > Len(keys) THEN << >>
  ELSE LET status == getVehicleStatus(store, keys[i])
       IN (IF status # nullStatus /\ status.currentZone # null
             THEN << status >> ELSE << >>)
            \o collectStatuses_InZoneOnly(store, keys, i + 1)

RECURSIVE collectStatuses(_, _, _)
\* vehicleStore.forEach: the statuses of the keys from the i-th on, in order.
collectStatuses(store, keys, i) ==
  IF i > Len(keys) THEN << >>
  ELSE LET status == getVehicleStatus(store, keys[i])
       IN (IF status # nullStatus THEN << status >> ELSE << >>)
            \o collectStatuses(store, keys, i + 1)

getAllTrackedVehicles(store, keys) == collectStatuses(store, keys, 1)

getVehiclesInZone(store, keys, zoneName) ==
  SelectSeq(getAllTrackedVehicles(store, keys),
            LAMBDA v : v.currentZone = zoneName)

\* vehicleStore.set that stores the data under every key of the store.
storeSet_EveryKey(store, vehicleId, vehicleData) ==
  [v \in DOMAIN store \cup {vehicleId} |-> vehicleData]

\* vehicleStore.set(vehicleId, vehicleData)
storeSet(store, vehicleId, vehicleData) ==
  [v \in DOMAIN store \cup {vehicleId} |->
     IF v = vehicleId THEN vehicleData ELSE store[v]]

\* The key order after vehicleStore.set: a new key goes last, a key already
\* present keeps its place.
keysAfterSet(keys, vehicleId) ==
  IF \E i \in 1..Len(keys) : keys[i] = vehicleId THEN keys
  ELSE Append(keys, vehicleId)

\* clearAllVehicleData that empties the histories and keeps the vehicles.
clearAllVehicleData_KeepsLocations(store) ==
  [v \in DOMAIN store |-> [store[v] EXCEPT !.events = << >>]]

\* clearAllVehicleData that clears nothing.
clearAllVehicleData_Keeps(store) == store

\* vehicleStore.clear()
clearAllVehicleData(store) == << >>

(***************************************************************************)
(* The state machine.                                                      *)
(***************************************************************************)

\* index.ts line 21 initializes the zones before the server listens.
Init ==
  /\ zones = PredefinedZones
  /\ vehicleStore = << >>
  /\ keyOrder = << >>
  /\ lastCall = [op |-> "start"]
  /\ generated = << >>
  /\ calls = 0
  /\ onRoute = TRUE
  /\ pending = {}
  /\ running = << >>
  /\ accepted = << >>

Track(vehicleId, point, timestamp) ==
  LET out == trackVehicleLocation(getAllZones, vehicleStore, vehicleId,
                                  point.latitude, point.longitude, timestamp)
  IN /\ vehicleStore' = storeSet(vehicleStore, vehicleId, out.data)
     /\ keyOrder' = keysAfterSet(keyOrder, vehicleId)
     /\ generated' = [v \in DOMAIN generated \cup {vehicleId} |->
                        IF v = vehicleId
                          THEN (IF v \in DOMAIN generated THEN generated[v] ELSE << >>)
                                 \o out.pushed
                          ELSE generated[v]]
     /\ lastCall' = [op |-> "trackVehicleLocation", vehicleId |-> vehicleId,
                     latitude |-> point.latitude, longitude |-> point.longitude,
                     timestamp |-> timestamp, warnings |-> out.warnings,
                     result |-> out.result]
     /\ calls' = calls + 1
     /\ UNCHANGED <<zones, handlerVars>>

TrackVehicleLocation ==
  /\ calls < FreeCalls
  /\ \E vehicleId \in Vehicles, point \in Points, timestamp \in Timestamps :
       Track(vehicleId, point, timestamp)
  /\ onRoute' = FALSE

\* Vehicle v1 drives the route, one fix per call, with increasing timestamps.
DriveRoute ==
  /\ onRoute
  /\ calls < RouteCalls
  /\ Track("v1", Route[(calls % Len(Route)) + 1], 10 + calls)
  /\ UNCHANGED onRoute

GetVehicle ==
  /\ \E vehicleId \in Vehicles :
       LET status == getVehicleStatus(vehicleStore, vehicleId)
       IN lastCall' = IF status = nullStatus
                        THEN [op |-> "GET /api/vehicle", vehicleId |-> vehicleId,
                              status |-> 404]
                        ELSE [op |-> "GET /api/vehicle", vehicleId |-> vehicleId,
                              status |-> 200, data |-> status]
  /\ UNCHANGED <<zones, vehicleStore, keyOrder, generated, calls, onRoute, handlerVars>>

GetAllTrackedVehicles ==
  /\ lastCall' = [op |-> "getAllTrackedVehicles",
                  result |-> getAllTrackedVehicles(vehicleStore, keyOrder)]
  /\ UNCHANGED <<zones, vehicleStore, keyOrder, generated, calls, onRoute, handlerVars>>

\* The zone names asked of getVehiclesInZone.
ZoneNames == {"Downtown", ""}

GetVehiclesInZone ==
  /\ \E zoneName \in ZoneNames :
       lastCall' = [op |-> "getVehiclesInZone", zoneName |-> zoneName,
                    result |-> getVehiclesInZone(vehicleStore, keyOrder, zoneName)]
  /\ UNCHANGED <<zones, vehicleStore, keyOrder, generated, calls, onRoute, handlerVars>>

ClearAllVehicleData ==
  /\ calls < FreeCalls
  /\ vehicleStore' = clearAllVehicleData(vehicleStore)
  /\ keyOrder' = SelectSeq(keyOrder, LAMBDA k : k \in DOMAIN vehicleStore')
  /\ generated' = << >>
  /\ lastCall' = [op |-> "clearAllVehicleData",
                  cleared |-> [i \in 1..Len(keyOrder) |->
                                 vehicleStore[keyOrder[i]].location.currentZone]]
  /\ calls' = calls + 1
  /\ onRoute' = FALSE
  /\ UNCHANGED <<zones, handlerVars>>

InitializeZones ==
  /\ calls < FreeCalls
  /\ zones' = PredefinedZones
  /\ lastCall' = [op |-> "initializeZones"]
  /\ calls' = calls + 1
  /\ onRoute' = FALSE
  /\ UNCHANGED <<vehicleStore, keyOrder, generated, handlerVars>>

AddZone ==
  /\ calls < FreeCalls
  /\ \E zone \in AddableZones :
       /\ zones' = addZone(zones, zone)
       /\ lastCall' = [op |-> "addZone", id |-> zone.id]
  /\ calls' = calls + 1
  /\ onRoute' = FALSE
  /\ UNCHANGED <<vehicleStore, keyOrder, generated, handlerVars>>

RemoveZone ==
  /\ calls < FreeCalls
  /\ \E zoneId \in RemovableIds :
       /\ zones' = removeZone(zones, zoneId)
       /\ lastCall' = [op |-> "removeZone", id |-> zoneId]
  /\ calls' = calls + 1
  /\ onRoute' = FALSE
  /\ UNCHANGED <<vehicleStore, keyOrder, generated, handlerVars>>

Next ==
  \/ TrackVehicleLocation
  \/ DriveRoute
  \/ GetVehicle
  \/ GetAllTrackedVehicles
  \/ GetVehiclesInZone
  \/ ClearAllVehicleData
  \/ InitializeZones
  \/ AddZone
  \/ RemoveZone

Spec == Init /\ [][Next]_vars

(***************************************************************************)
(* Vocabulary of the properties.                                           *)
(***************************************************************************)

\* A step that is one call of trackVehicleLocation.
TrackStep == calls' = calls + 1 /\ lastCall'.op = "trackVehicleLocation"

\* The zone stored for a vehicle; none for a vehicle without stored state.
storedZone(store, v) ==
  IF v \in DOMAIN store THEN store[v].location.currentZone ELSE null

\* The history stored for a vehicle; empty for a vehicle without stored state.
storedEvents(store, v) ==
  IF v \in DOMAIN store THEN store[v].events ELSE << >>

\* The last n elements of s, all of s when it has fewer.
LastN(s, n) ==
  LET m == IF n <= Len(s) THEN n ELSE Len(s)
  IN [i \in 1..m |-> s[Len(s) - m + i]]

Enter(z, ts) == [type |-> "enter", zone |-> z, timestamp |-> ts]

Exit(z, ts) == [type |-> "exit", zone |-> z, timestamp |-> ts]

\* This step appended exactly evs to v's history (the oldest events leave a
\* history that would exceed 50).
Appended(v, evs) ==
  storedEvents(vehicleStore', v) = LastN(storedEvents(vehicleStore, v) \o evs, 50)

\* The call returned no event.
NoEventReturned(r) == ~r.eventTriggered /\ "event" \notin DOMAIN r

\* The call returned the event e.
Returned(r, e) == r.eventTriggered /\ "event" \in DOMAIN r /\ r.event = e

(***************************************************************************)
(* Properties.                                                             *)
(***************************************************************************)

\* C1: a trackLocation call whose stored previous zone is a zone Z1 and whose
\* newly resolved zone is a different zone Z2 appends exactly Exit(Z1) then
\* Enter(Z2), both with the call's timestamp, and returns eventTriggered with
\* event Enter(Z2).
C1_ExitThenEnter ==
  [][TrackStep =>
       LET v == lastCall'.vehicleId
           ts == lastCall'.timestamp
           r == lastCall'.result
           z1 == storedZone(vehicleStore, v)
           z2 == r.currentZone
       IN (z1 # null /\ z2 # null /\ z1 # z2) =>
            /\ Appended(v, << Exit(z1, ts), Enter(z2, ts) >>)
            /\ Returned(r, Enter(z2, ts))]_vars

\* C2: a trackLocation call in which exactly one of the stored previous zone
\* and the newly resolved zone is none appends exactly one event, Enter(Z)
\* from none to Z and Exit(Z) from Z to none, with the call's timestamp, and
\* returns it; a vehicle never tracked has previous zone none.
C2_SingleEvent ==
  [][TrackStep =>
       LET v == lastCall'.vehicleId
           ts == lastCall'.timestamp
           r == lastCall'.result
           z1 == storedZone(vehicleStore, v)
           z2 == r.currentZone
       IN /\ (z1 = null /\ z2 # null) =>
               Appended(v, << Enter(z2, ts) >>) /\ Returned(r, Enter(z2, ts))
          /\ (z1 # null /\ z2 = null) =>
               Appended(v, << Exit(z1, ts) >>) /\ Returned(r, Exit(z1, ts))]_vars

\* C3: a trackLocation call for v at (lat, lon) that directly follows a
\* trackLocation call for v at the same (lat, lon), and more generally any
\* call whose stored previous zone equals the newly resolved zone, returns
\* eventTriggered = false with no event and appends nothing.
C3_Idempotent ==
  [][TrackStep =>
       LET v == lastCall'.vehicleId
           r == lastCall'.result
           z1 == storedZone(vehicleStore, v)
           z2 == r.currentZone
           repeated == /\ lastCall.op = "trackVehicleLocation"
                       /\ lastCall.vehicleId = v
                       /\ lastCall.latitude = lastCall'.latitude
                       /\ lastCall.longitude = lastCall'.longitude
       IN (repeated \/ z1 = z2) =>
            NoEventReturned(r) /\ Appended(v, << >>)]_vars

\* C4: no stored history ever holds more than 50 events, and getStatus never
\* reports a totalEventsTracked above 50.
C4_EventCap ==
  \A v \in DOMAIN vehicleStore :
    /\ Len(vehicleStore[v].events) <= 50
    /\ getVehicleStatus(vehicleStore, v).totalEventsTracked <= 50

\* A call has appended two events to a history that already held 50.
C4_Witness ==
  /\ lastCall.op = "trackVehicleLocation"
  /\ lastCall.vehicleId = "v1"
  /\ Len(generated["v1"]) = 53
  /\ generated["v1"][52].timestamp = lastCall.timestamp
  /\ generated["v1"][50].timestamp < lastCall.timestamp
  /\ Len(vehicleStore["v1"].events) = 50

\* C5: each stored history is the last min(50, n) events, in generation
\* order, of the n events generated for the vehicle since it was first
\* tracked or since the last reset.
C5_Fifo ==
  /\ DOMAIN vehicleStore = DOMAIN generated
  /\ \A v \in DOMAIN vehicleStore :
       vehicleStore[v].events = LastN(generated[v], 50)

\* Events have been evicted: more than 50 were generated, 50 are stored.
C5_Witness ==
  /\ "v1" \in DOMAIN vehicleStore
  /\ Len(generated["v1"]) > 51
  /\ Len(vehicleStore["v1"].events) = 50
  /\ vehicleStore["v1"].events[1] # generated["v1"][1]

\* C6: right after any trackLocation(v, lat, lon, ts) call, getStatus(v)
\* reports lastLocation = (lat, lon), lastLocationUpdate = ts and currentZone
\* equal to the currentZone the call returned.
C6_StateUpdated ==
  lastCall.op = "trackVehicleLocation" =>
    LET status == getVehicleStatus(vehicleStore, lastCall.vehicleId)
    IN /\ status # nullStatus
       /\ status.lastLocation = [latitude |-> lastCall.latitude,
                                 longitude |-> lastCall.longitude]
       /\ status.lastLocationUpdate = lastCall.timestamp
       /\ status.currentZone = lastCall.result.currentZone

\* The name of the first zone of the catalog containing the point, or none.
firstContaining(zs, point) ==
  LET idx == {i \in 1..Len(zs) : isPointInZone(point, zs[i])}
  IN IF idx = {} THEN null
     ELSE zs[CHOOSE i \in idx : \A j \in idx : i <= j].name

\* C7: the zone a trackLocation call stores and reports is the first zone, in
\* catalog order, containing the point, and none when no zone contains it.
C7_FirstMatch ==
  lastCall.op = "trackVehicleLocation" =>
    LET z == firstContaining(zones, [latitude |-> lastCall.latitude,
                                     longitude |-> lastCall.longitude])
    IN /\ lastCall.result.currentZone = z
       /\ vehicleStore[lastCall.vehicleId].location.currentZone = z

\* A point in two overlapping zones of different names was resolved.
C7_Witness ==
  /\ lastCall.op = "trackVehicleLocation"
  /\ \E i, j \in 1..Len(zones) :
       /\ i < j
       /\ zones[i].name # zones[j].name
       /\ isPointInZone([latitude |-> lastCall.latitude,
                         longitude |-> lastCall.longitude], zones[i])
       /\ isPointInZone([latitude |-> lastCall.latitude,
                         longitude |-> lastCall.longitude], zones[j])
       /\ lastCall.result.currentZone = zones[i].name

\* C8: getStatus(v) is absent exactly when v has had no trackLocation call
\* since the start or the last reset; the lookup of an unknown id answers
\* 404, not an error, and creates no state.
C8_AbsentIffUntracked ==
  /\ \A v \in Vehicles :
       (getVehicleStatus(vehicleStore, v) = nullStatus) <=> (v \notin DOMAIN generated)
  /\ lastCall.op = "GET /api/vehicle" =>
       /\ lastCall.status \in {200, 404}
       /\ (lastCall.status = 404) <=> (lastCall.vehicleId \notin DOMAIN generated)
       /\ (lastCall.status = 404) => (lastCall.vehicleId \notin DOMAIN vehicleStore)

\* An unknown id was looked up while another vehicle is tracked.
C8_Witness ==
  /\ lastCall.op = "GET /api/vehicle"
  /\ lastCall.status = 404
  /\ DOMAIN vehicleStore # {}

\* C9: for a tracked vehicle with n stored events, getStatus returns the last
\* min(10, n) stored events in insertion order and totalEventsTracked = n.
C9_RecentEvents ==
  /\ \A v \in DOMAIN vehicleStore :
       LET status == getVehicleStatus(vehicleStore, v)
       IN /\ status.recentEvents = LastN(vehicleStore[v].events, 10)
          /\ status.totalEventsTracked = Len(vehicleStore[v].events)
  /\ (lastCall.op = "GET /api/vehicle" /\ lastCall.status = 200) =>
       /\ lastCall.data.recentEvents
            = LastN(vehicleStore[lastCall.vehicleId].events, 10)
       /\ lastCall.data.totalEventsTracked
            = Len(vehicleStore[lastCall.vehicleId].events)

\* The status of a vehicle with more than 10 stored events was returned.
C9_Witness ==
  /\ lastCall.op = "GET /api/vehicle"
  /\ lastCall.status = 200
  /\ lastCall.data.totalEventsTracked > 10
  /\ Len(lastCall.data.recentEvents) = 10

\* Every fix of the model, as a previous location.
AllPoints == Points \cup {Route[i] : i \in 1..Len(Route)}

\* The store with v's stored location moved to p.
movedTo(store, v, p) ==
  [store EXCEPT ![v].location.latitude = p.latitude,
                ![v].location.longitude = p.longitude]

farApart(a, b) ==
  (a.latitude - b.latitude) * (a.latitude - b.latitude)
    + (a.longitude - b.longitude) * (a.longitude - b.longitude) > 1000 * 1000

\* C11: a trackLocation(v, ...) call logs exactly one warning when v has
\* stored state and its stored last location is more than 0.1 degree from the
\* new point, and none otherwise; never on the first update of a vehicle or
\* on the first update after a reset.
C11_WarnsIffFar ==
  [][TrackStep =>
       LET v == lastCall'.vehicleId
           new == [latitude |-> lastCall'.latitude, longitude |-> lastCall'.longitude]
       IN /\ lastCall'.warnings \in {0, 1}
          /\ (lastCall'.warnings = 1) <=>
               (v \in DOMAIN vehicleStore /\ farApart(vehicleStore[v].location, new))
          /\ v \notin DOMAIN generated => lastCall'.warnings = 0
          /\ lastCall.op = "clearAllVehicleData" => lastCall'.warnings = 0]_vars

\* An update of a tracked vehicle warned: the jump from Harbor to the airport.
C11_Witness ==
  /\ lastCall.op = "trackVehicleLocation"
  /\ lastCall.warnings = 1
  /\ lastCall.latitude = P_airport.latitude
  /\ lastCall.longitude = P_airport.longitude
  /\ Len(generated[lastCall.vehicleId]) > 2

\* The vehicle's stored state is that of a vehicle whose only event is its
\* entry into Downtown and whose last fix is p.
inDowntownAt(v, p) ==
  /\ v \in DOMAIN vehicleStore
  /\ vehicleStore[v].location.latitude = p.latitude
  /\ vehicleStore[v].location.longitude = p.longitude
  /\ vehicleStore[v].location.currentZone = "Downtown"
  /\ Len(vehicleStore[v].events) = 1
  /\ vehicleStore[v].events[1].type = "enter"
  /\ vehicleStore[v].events[1].zone = "Downtown"

GridMax == 5

\* The points of the grid, and fixes on and around Downtown and Harbor.
Grid == [latitude : -1..GridMax, longitude : -1..GridMax]

FixPoints ==
  { P_downtown, P_downtown2, P_harbor,
    [latitude |-> 407150, longitude |-> -740060],
    [latitude |-> 407150, longitude |-> -740040],
    [latitude |-> 407128, longitude |-> -740040],
    [latitude |-> 407139, longitude |-> -740040],
    [latitude |-> 407150, longitude |-> -740050],
    [latitude |-> 407139, longitude |-> -740060],
    [latitude |-> 407128, longitude |-> -740050],
    [latitude |-> 407061, longitude |-> -740087],
    [latitude |-> 407061, longitude |-> -739960],
    [latitude |-> 407000, longitude |-> -740000] }

GeoPoints == Grid \cup FixPoints

\* The circles under test lie on the grid and are asked about grid points.
pointsFor(zone) == IF zone.type = "circle" THEN Grid ELSE GeoPoints

Reverse(s) == [i \in 1..Len(s) |-> s[Len(s) + 1 - i]]

\* Non-self-intersecting polygons, each with a cover of its region by convex
\* pieces: the square, a slanted triangle, a diamond, and three concave
\* ones, an L, a dart and a U; and the two predefined polygons.
Shapes ==
  LET sq == << <<0, 0>>, <<0, 2>>, <<2, 2>>, <<2, 0>> >>
      tri == << <<0, 0>>, <<4, 1>>, <<1, 4>> >>
      dia == << <<2, 0>>, <<4, 2>>, <<2, 4>>, <<0, 2>> >>
      ell == << <<0, 0>>, <<0, 4>>, <<2, 4>>, <<2, 2>>, <<4, 2>>, <<4, 0>> >>
      dart == << <<0, 0>>, <<5, 0>>, <<2, 2>>, <<0, 5>> >>
      you == << <<0, 0>>, <<0, 4>>, <<4, 4>>, <<4, 3>>,
                <<1, 3>>, <<1, 1>>, <<4, 1>>, <<4, 0>> >>
      base ==
        { [coordinates |-> sq, parts |-> {sq}],
          [coordinates |-> tri, parts |-> {tri}],
          [coordinates |-> dia, parts |-> {dia}],
          [coordinates |-> ell,
           parts |-> { << <<0, 0>>, <<0, 4>>, <<2, 4>>, <<2, 0>> >>,
                       << <<2, 0>>, <<2, 2>>, <<4, 2>>, <<4, 0>> >> }],
          [coordinates |-> dart,
           parts |-> { << <<0, 0>>, <<5, 0>>, <<2, 2>> >>,
                       << <<0, 0>>, <<2, 2>>, <<0, 5>> >> }],
          [coordinates |-> you,
           parts |-> { << <<0, 0>>, <<0, 4>>, <<1, 4>>, <<1, 0>> >>,
                       << <<1, 3>>, <<1, 4>>, <<4, 4>>, <<4, 3>> >>,
                       << <<1, 0>>, <<1, 1>>, <<4, 1>>, <<4, 0>> >> }],
          [coordinates |-> PredefinedZones[1].coordinates,
           parts |-> {PredefinedZones[1].coordinates}],
          [coordinates |-> PredefinedZones[3].coordinates,
           parts |-> {PredefinedZones[3].coordinates}] }
  IN base \cup {[coordinates |-> Reverse(b.coordinates), parts |-> b.parts] :
                  b \in base}

Square == << <<0, 0>>, <<0, 2>>, <<2, 2>>, <<2, 0>> >>

Circles ==
  { [center |-> <<0, 0>>, radius |-> 5],
    [center |-> <<2, 2>>, radius |-> 2],
    [center |-> <<2, 2>>, radius |-> 1],
    [center |-> <<3, 1>>, radius |-> 0],
    [center |-> <<2, 2>>, radius |-> -1] }

GeoZones ==
  {[id |-> "polygon", name |-> "Polygon", type |-> "polygon",
    coordinates |-> s.coordinates] : s \in Shapes}
  \cup {[id |-> "circle", name |-> "Circle", type |-> "circle",
         center |-> c.center, radius |-> c.radius] : c \in Circles}

GeoInit ==
  /\ zones \in {<<zone>> : zone \in GeoZones}
  /\ vehicleStore = << >>
  /\ keyOrder = << >>
  /\ lastCall = [op |-> "start"]
  /\ generated = << >>
  /\ calls = 0
  /\ onRoute = FALSE
  /\ pending = {}
  /\ running = << >>
  /\ accepted = << >>

IsPointInCircle ==
  /\ zones[1].type = "circle"
  /\ \E point \in Grid :
       lastCall' = [op |-> "isPointInCircle", point |-> point,
                    center |-> zones[1].center, radius |-> zones[1].radius,
                    result |-> isPointInCircle(point, zones[1].center,
                                               zones[1].radius)]
  /\ UNCHANGED <<zones, vehicleStore, keyOrder, generated, calls, onRoute, handlerVars>>

IsPointInPolygon ==
  /\ zones[1].type = "polygon"
  /\ \E point \in GeoPoints :
       lastCall' = [op |-> "isPointInPolygon", point |-> point,
                    coordinates |-> zones[1].coordinates,
                    result |-> isPointInPolygon(point, zones[1].coordinates)]
  /\ UNCHANGED <<zones, vehicleStore, keyOrder, generated, calls, onRoute, handlerVars>>

IsPointInZone ==
  /\ \E point \in pointsFor(zones[1]) :
       lastCall' = [op |-> "isPointInZone", point |-> point, zone |-> zones[1],
                    result |-> isPointInZone(point, zones[1])]
  /\ UNCHANGED <<zones, vehicleStore, keyOrder, generated, calls, onRoute, handlerVars>>

GeoNext ==
  \/ IsPointInCircle
  \/ IsPointInPolygon
  \/ IsPointInZone

GeoSpec == GeoInit /\ [][GeoNext]_vars

\* Twice the signed area of the triangle a, b, p.
cross(a, b, p) ==
  (b[1] - a[1]) * (p.longitude - a[2]) - (b[2] - a[2]) * (p.latitude - a[1])

next(coordinates, i) == coordinates[(i % Len(coordinates)) + 1]

\* p lies on the segment from a to b.
onSegment(p, a, b) ==
  /\ cross(a, b, p) = 0
  /\ Min(a[1], b[1]) <= p.latitude /\ p.latitude <= Max(a[1], b[1])
  /\ Min(a[2], b[2]) <= p.longitude /\ p.longitude <= Max(a[2], b[2])

onPolygonBoundary(p, coordinates) ==
  \E i \in 1..Len(coordinates) :
    onSegment(p, coordinates[i], next(coordinates, i))

\* p lies in the closed convex polygon part.
inConvex(p, part) ==
  \/ \A i \in 1..Len(part) : cross(part[i], next(part, i), p) >= 0
  \/ \A i \in 1..Len(part) : cross(part[i], next(part, i), p) <= 0

\* p lies in the closed region of the polygon.
inRegion(p, coordinates) ==
  \E s \in Shapes :
    /\ s.coordinates = coordinates
    /\ \E part \in s.parts : inConvex(p, part)

onCircle(p, center, radius) ==
  /\ radius >= 0
  /\ (p.latitude - center[1]) * (p.latitude - center[1])
       + (p.longitude - center[2]) * (p.longitude - center[2])
     = radius * radius

onZoneBoundary(p, zone) ==
  IF zone.type = "circle" THEN onCircle(p, zone.center, zone.radius)
  ELSE onPolygonBoundary(p, zone.coordinates)

\* C13: a point lying exactly on a zone's boundary (on a polygon edge or
\* vertex, or at distance exactly radius from a circle's center) is resolved
\* as inside that zone.
C13_BoundaryInside ==
  (lastCall.op = "isPointInZone" /\ onZoneBoundary(lastCall.point, lastCall.zone))
    => lastCall.result

\* C14: for every polygon of Shapes (convex and concave, in both
\* orientations) and every point of the grid that is not on the polygon's
\* boundary, isPointInPolygon returns true exactly when the point lies in the
\* polygon's region; for the square it returns true at (1,1) and false at
\* (3,3).
C14_PolygonExact ==
  lastCall.op = "isPointInPolygon" =>
    /\ ~onPolygonBoundary(lastCall.point, lastCall.coordinates) =>
         (lastCall.result <=> inRegion(lastCall.point, lastCall.coordinates))
    /\ (lastCall.coordinates = Square
          /\ lastCall.point = [latitude |-> 1, longitude |-> 1]) => lastCall.result
    /\ (lastCall.coordinates = Square
          /\ lastCall.point = [latitude |-> 3, longitude |-> 3]) => ~lastCall.result

\* The point (1,1) was found inside the square.
C14_Witness ==
  /\ lastCall.op = "isPointInPolygon"
  /\ lastCall.coordinates = Square
  /\ lastCall.point = [latitude |-> 1, longitude |-> 1]
  /\ lastCall.result

\* C15: isPointInCircle returns true if and only if the distance between
\* point and center is at most the radius: false strictly outside, true at
\* distance exactly the radius.
C15_CircleInclusive ==
  lastCall.op = "isPointInCircle" =>
    LET dLat == lastCall.point.latitude - lastCall.center[1]
        dLon == lastCall.point.longitude - lastCall.center[2]
        r == lastCall.radius
        within == r >= 0 /\ dLat * dLat + dLon * dLon < r * r
        outside == r < 0 \/ dLat * dLat + dLon * dLon > r * r
    IN /\ within => lastCall.result
       /\ onCircle(lastCall.point, lastCall.center, r) => lastCall.result
       /\ outside => ~lastCall.result

\* The point (3,4), at distance exactly 5 from the center (0,0) of a circle
\* of radius 5, was found inside.
C15_Witness ==
  /\ lastCall.op = "isPointInCircle"
  /\ lastCall.center = <<0, 0>>
  /\ lastCall.radius = 5
  /\ lastCall.point = [latitude |-> 3, longitude |-> 4]
  /\ lastCall.result

\* C16: right after clearAllVehicleData, getStatus is absent for every
\* vehicle id and the list of all vehicles is empty; and the next
\* trackLocation, for any id, is a first update: it logs no anomaly warning,
\* and the vehicle's history after it is the one Enter(Z) of the zone it
\* reports, returned in the result, or is empty when it reports no zone.
C16_ResetClears ==
  [][/\ (lastCall'.op = "clearAllVehicleData" /\ calls' = calls + 1) =>
          /\ \A v \in Vehicles : getVehicleStatus(vehicleStore', v) = nullStatus
          /\ getAllTrackedVehicles(vehicleStore', keyOrder') = << >>
          /\ \A z \in {zones[i].name : i \in 1..Len(zones)} :
               getVehiclesInZone(vehicleStore', keyOrder', z) = << >>
     /\ (TrackStep /\ lastCall.op = "clearAllVehicleData") =>
          LET v == lastCall'.vehicleId
              ts == lastCall'.timestamp
              r == lastCall'.result
          IN /\ lastCall'.warnings = 0
             /\ r.currentZone = firstContaining(zones,
                    [latitude |-> lastCall'.latitude,
                     longitude |-> lastCall'.longitude])
             /\ IF r.currentZone = null
                  THEN vehicleStore'[v].events = << >> /\ NoEventReturned(r)
                  ELSE /\ vehicleStore'[v].events = << Enter(r.currentZone, ts) >>
                       /\ Returned(r, Enter(r.currentZone, ts))
             /\ DOMAIN vehicleStore' = {v}]_vars

\* A store holding a vehicle inside Downtown was reset and is empty, and a
\* call is left for the next update.
C16_Witness ==
  /\ lastCall.op = "clearAllVehicleData"
  /\ lastCall.cleared = << "Downtown" >>
  /\ vehicleStore = << >>
  /\ keyOrder = << >>
  /\ calls < FreeCalls

\* Timestamps a call could have carried, or the store could hold.
Stamps == 0..3

\* The events this step generated for v.
pushedFor(v) ==
  LET before == IF v \in DOMAIN generated THEN Len(generated[v]) ELSE 0
  IN SubSeq(generated'[v], before + 1, Len(generated'[v]))

\* The events without their timestamps.
kinds(evs) == [i \in 1..Len(evs) |-> [type |-> evs[i].type, zone |-> evs[i].zone]]

\* The store with v's stored timestamp set to ts.
stampedAt(store, v, ts) == [store EXCEPT ![v].location.timestamp = ts]

\* C18: every trackLocation call, with a timestamp smaller than the stored
\* one or not, is applied: its fix, zone and timestamp become the stored
\* ones, and its events are appended at the end of the history, stamped with
\* its timestamp; and the events generated, the zone and the warnings are the
\* same whatever the timestamp of the call and whatever the stored timestamp.
C18_ArrivalOrder ==
  [][TrackStep =>
       LET v == lastCall'.vehicleId
           lat == lastCall'.latitude
           lon == lastCall'.longitude
           ts == lastCall'.timestamp
           r == lastCall'.result
           pushed == pushedFor(v)
       IN /\ vehicleStore'[v].location
               = [vehicleId |-> v, latitude |-> lat, longitude |-> lon,
                  timestamp |-> ts, currentZone |-> r.currentZone]
          /\ Appended(v, pushed)
          /\ \A i \in 1..Len(pushed) : pushed[i].timestamp = ts
          /\ r.eventTriggered <=> pushed # << >>
          /\ \A ts2 \in Stamps :
               LET out == trackVehicleLocation(zones, vehicleStore, v, lat, lon, ts2)
               IN /\ kinds(out.pushed) = kinds(pushed)
                  /\ out.result.currentZone = r.currentZone
                  /\ out.warnings = lastCall'.warnings
          /\ v \in DOMAIN vehicleStore =>
               \A ts0 \in Stamps :
                 LET out == trackVehicleLocation(zones, stampedAt(vehicleStore, v, ts0),
                                                 v, lat, lon, ts)
                 IN /\ out.data = vehicleStore'[v]
                    /\ out.pushed = pushed
                    /\ out.result = r]_vars

\* A call stamped 1 was applied to a vehicle last updated at 2: it left
\* Downtown, and the Exit stamped 1 follows the Enter stamped 2.
C18_Witness ==
  /\ lastCall.op = "trackVehicleLocation"
  /\ lastCall.timestamp = 1
  /\ lastCall.vehicleId \in DOMAIN vehicleStore
  /\ vehicleStore[lastCall.vehicleId].location.timestamp = 1
  /\ vehicleStore[lastCall.vehicleId].events
       = << Enter("Downtown", 2), Exit("Downtown", 1) >>

\* C19: a trackLocation call for vehicle v leaves the stored location, zone,
\* timestamp and history of every other vehicle unchanged, creates no state
\* for another vehicle, and getStatus of every other vehicle returns the same
\* value before and after the call.
C19_OtherVehiclesUnchanged ==
  [][TrackStep =>
       \A w \in Vehicles \ {lastCall'.vehicleId} :
         /\ (w \in DOMAIN vehicleStore') <=> (w \in DOMAIN vehicleStore)
         /\ w \in DOMAIN vehicleStore =>
              /\ vehicleStore'[w].location = vehicleStore[w].location
              /\ vehicleStore'[w].events = vehicleStore[w].events
         /\ getVehicleStatus(vehicleStore', w) = getVehicleStatus(vehicleStore, w)]_vars

\* Vehicle v2 was updated, with an event, while v1 holds its own state and
\* history.
C19_Witness ==
  /\ lastCall.op = "trackVehicleLocation"
  /\ lastCall.vehicleId = "v2"
  /\ lastCall.result.eventTriggered
  /\ keyOrder = << "v1", "v2" >>
  /\ vehicleStore["v1"].events = << Enter("Downtown", 1) >>
  /\ vehicleStore["v2"].location.currentZone # "Downtown"

\* C20: no two zones of the catalog have the same name, and no two have the
\* same id.
C20_UniqueNames ==
  \A i, j \in 1..Len(zones) :
    i # j => zones[i].name # zones[j].name /\ zones[i].id # zones[j].id

(***************************************************************************)
(* The POST /api/location handler statement by statement. Requests for the *)
(* vehicles arrive and wait together; each handler call is a frame that    *)
(* walks through trackVehicleLocation, reading and writing vehicleStore as *)
(* the statements do: the data of a vehicle already stored is changed in   *)
(* place, the data of a new vehicle is local until vehicleStore.set.       *)
(***************************************************************************)

MaxRequests == 3

LoopPoints == {P_downtown, P_harbor, P_outside}

\* A handler could be entered while another is under way.
canDispatch_Always(frames) == TRUE

\* The handler and trackVehicleLocation are synchronous functions (no await,
\* no callback): the event loop enters the handler for the next request only
\* when no handler call is under way.
canDispatch(frames) == frames = << >>

LoopInit ==
  /\ zones = PredefinedZones
  /\ vehicleStore = << >>
  /\ keyOrder = << >>
  /\ lastCall = [op |-> "start"]
  /\ generated = << >>
  /\ calls = 0
  /\ onRoute = FALSE
  /\ pending = {}
  /\ running = << >>
  /\ accepted = << >>

\* The readings of Date.now(): later than every timestamp of a body.
Clock == {1000}

\* The request bodies for a vehicle at a point, the n-th to arrive: with the
\* timestamp n, with the timestamp 0, and without a timestamp.
bodies(vehicleId, point, n) ==
  LET fix == [vehicleId |-> vehicleId, latitude |-> point.latitude,
              longitude |-> point.longitude]
  IN {fix @@ [timestamp |-> n], fix @@ [timestamp |-> 0], fix}

\* timestamp || Date.now(): an absent timestamp is undefined, and undefined
\* and 0 are falsy.
timestampOrNow(body, now) ==
  IF "timestamp" \in DOMAIN body /\ body.timestamp # 0 THEN body.timestamp ELSE now

\* A request arrives.
Arrive ==
  /\ calls < MaxRequests
  /\ \E vehicleId \in Vehicles, point \in LoopPoints :
       \E body \in bodies(vehicleId, point, calls + 1) :
         pending' = pending \cup {[id |-> calls + 1, body |-> body]}
  /\ calls' = calls + 1
  /\ UNCHANGED <<zones, vehicleStore, keyOrder, lastCall, generated, onRoute,
                 running, accepted>>

\* The handler is entered with a waiting request (index.ts lines 62-82): the
\* body is read and trackVehicleLocation called with timestamp || Date.now().
Dispatch ==
  /\ canDispatch(running)
  /\ \E waiting \in pending, now \in Clock :
       LET body == waiting.body
           req == [id |-> waiting.id, vehicleId |-> body.vehicleId,
                   latitude |-> body.latitude, longitude |-> body.longitude,
                   timestamp |-> timestampOrNow(body, now)]
       IN
       /\ pending' = pending \ {waiting}
       /\ accepted' = Append(accepted, req)
       /\ running' = Append(running,
                       [req |-> req, body |-> body, pc |-> "get", warnings |-> 0,
                        previousZone |-> null, newZone |-> null,
                        isNew |-> FALSE, local |-> << >>, pushed |-> << >>])
  /\ UNCHANGED <<zones, vehicleStore, keyOrder, lastCall, generated, calls, onRoute>>

frameAt(i, pc) == i \in 1..Len(running) /\ running[i].pc = pc

newLocationOf(f) ==
  [vehicleId |-> f.req.vehicleId, latitude |-> f.req.latitude,
   longitude |-> f.req.longitude, timestamp |-> f.req.timestamp,
   currentZone |-> f.newZone]

\* Lines 507-522: the previous data is read, the anomaly warning logged, the
\* new and the previous zone computed.
HandlerGet ==
  /\ \E i \in 1..Len(running) :
       /\ frameAt(i, "get")
       /\ LET f == running[i]
              currentLocation == [latitude |-> f.req.latitude,
                                  longitude |-> f.req.longitude]
          IN running' = [running EXCEPT ![i] =
               [f EXCEPT !.pc = "update",
                         !.warnings = IF warnsAnomaly(vehicleStore, f.req.vehicleId,
                                                      currentLocation)
                                        THEN 1 ELSE 0,
                         !.newZone = findCurrentZone(getAllZones, currentLocation),
                         !.previousZone = previousZoneOf(vehicleStore,
                                                         f.req.vehicleId)]]
  /\ UNCHANGED <<zones, vehicleStore, keyOrder, lastCall, generated, calls, onRoute,
                 pending, accepted>>

\* Lines 533-543: the data of a new vehicle is created, the location of a
\* stored one is replaced.
HandlerUpdate ==
  /\ \E i \in 1..Len(running) :
       /\ frameAt(i, "update")
       /\ LET f == running[i]
              v == f.req.vehicleId
          IN IF v \notin DOMAIN vehicleStore
               THEN /\ running' = [running EXCEPT ![i] =
                         [f EXCEPT !.pc = "events", !.isNew = TRUE,
                                   !.local = [location |-> newLocationOf(f),
                                              events |-> << >>]]]
                    /\ UNCHANGED vehicleStore
               ELSE /\ running' = [running EXCEPT ![i] =
                         [f EXCEPT !.pc = "events", !.isNew = FALSE]]
                    /\ vehicleStore' = [vehicleStore EXCEPT
                                          ![v].location = newLocationOf(f)]
  /\ UNCHANGED <<zones, keyOrder, lastCall, generated, calls, onRoute,
                 pending, accepted>>

\* Lines 545-590: the events of the zone change are pushed.
HandlerEvents ==
  /\ \E i \in 1..Len(running) :
       /\ frameAt(i, "events")
       /\ LET f == running[i]
              v == f.req.vehicleId
              pushed == zoneEvents(f.previousZone, f.newZone, f.req.timestamp)
          IN /\ IF f.isNew
                  THEN /\ running' = [running EXCEPT ![i] =
                            [f EXCEPT !.pc = "cap", !.pushed = pushed,
                                      !.local.events = @ \o pushed]]
                       /\ UNCHANGED vehicleStore
                  ELSE /\ running' = [running EXCEPT ![i] =
                            [f EXCEPT !.pc = "cap", !.pushed = pushed]]
                       /\ vehicleStore' = [vehicleStore EXCEPT
                                             ![v].events = @ \o pushed]
             /\ generated' = [w \in DOMAIN generated \cup {v} |->
                                IF w = v
                                  THEN (IF w \in DOMAIN generated
                                          THEN generated[w] ELSE << >>) \o pushed
                                  ELSE generated[w]]
  /\ UNCHANGED <<zones, keyOrder, lastCall, calls, onRoute, pending, accepted>>

\* Lines 592-595: the history is cut to its most recent events.
HandlerCap ==
  /\ \E i \in 1..Len(running) :
       /\ frameAt(i, "cap")
       /\ LET f == running[i]
              v == f.req.vehicleId
          IN IF f.isNew
               THEN /\ running' = [running EXCEPT ![i] =
                         [f EXCEPT !.pc = "set",
                                   !.local.events = capEvents(@)]]
                    /\ UNCHANGED vehicleStore
               ELSE /\ running' = [running EXCEPT ![i] = [f EXCEPT !.pc = "set"]]
                    /\ vehicleStore' = [vehicleStore EXCEPT
                                          ![v].events = capEvents(@)]
  /\ UNCHANGED <<zones, keyOrder, lastCall, generated, calls, onRoute,
                 pending, accepted>>

\* Lines 598-607: the data is saved and the result returned.
HandlerSet ==
  /\ \E i \in 1..Len(running) :
       /\ frameAt(i, "set")
       /\ LET f == running[i]
              v == f.req.vehicleId
              base == [vehicleId |-> v, latitude |-> f.req.latitude,
                       longitude |-> f.req.longitude, currentZone |-> f.newZone,
                       eventTriggered |-> f.pushed # << >>]
          IN /\ vehicleStore' = storeSet(vehicleStore, v,
                                         IF f.isNew THEN f.local ELSE vehicleStore[v])
             /\ keyOrder' = keysAfterSet(keyOrder, v)
             /\ lastCall' = [op |-> "POST /api/location", id |-> f.req.id,
                             body |-> f.body, warnings |-> f.warnings,
                             result |-> IF f.pushed # << >>
                                          THEN base @@ [event |-> f.pushed[Len(f.pushed)]]
                                          ELSE base]
             /\ running' = SubSeq(running, 1, i - 1)
                             \o SubSeq(running, i + 1, Len(running))
  /\ UNCHANGED <<zones, generated, calls, onRoute, pending, accepted>>

LoopNext ==
  \/ Arrive
  \/ Dispatch
  \/ HandlerGet
  \/ HandlerUpdate
  \/ HandlerEvents
  \/ HandlerCap
  \/ HandlerSet

LoopSpec == LoopInit /\ [][LoopNext]_vars

RECURSIVE replay(_, _, _)
\* The requests from the i-th on applied one after the other, each as one
\* trackVehicleLocation call: the store, the key order, the events generated
\* and the last output.
replay(reqs, i, st) ==
  IF i > Len(reqs) THEN st
  ELSE LET req == reqs[i]
           out == trackVehicleLocation(zones, st.store, req.vehicleId,
                                       req.latitude, req.longitude, req.timestamp)
       IN replay(reqs, i + 1,
                 [store |-> storeSet(st.store, req.vehicleId, out.data),
                  keys |-> keysAfterSet(st.keys, req.vehicleId),
                  gen |-> [w \in DOMAIN st.gen \cup {req.vehicleId} |->
                             IF w = req.vehicleId
                               THEN (IF w \in DOMAIN st.gen THEN st.gen[w] ELSE << >>)
                                      \o out.pushed
                               ELSE st.gen[w]],
                  out |-> [warnings |-> out.warnings, result |-> out.result]])

\* C17: whatever requests wait together and in whatever order they are
\* handed to the handler, at most one handler call is under way, and whenever
\* none is, the store, the histories and the events generated are those of
\* applying the accepted requests one after the other in the order of their
\* acceptance, no event lost and none duplicated, and the last result is the
\* one of the last accepted request.
C17_Serialized ==
  /\ Len(running) <= 1
  /\ (running = << >> /\ accepted # << >>) =>
       LET final == replay(accepted, 1,
                           [store |-> << >>, keys |-> << >>, gen |-> << >>,
                            out |-> << >>])
       IN /\ vehicleStore = final.store
          /\ keyOrder = final.keys
          /\ generated = final.gen
          /\ lastCall.warnings = final.out.warnings
          /\ lastCall.result = final.out.result

\* Three requests for v1 waited together, the last arrived was handled
\* first, and all three have been applied.
C17_Witness ==
  /\ running = << >>
  /\ pending = {}
  /\ Len(accepted) = MaxRequests
  /\ accepted[1].id = MaxRequests
  /\ \A i \in 1..Len(accepted) : accepted[i].vehicleId = "v1"
  /\ Len(vehicleStore["v1"].events) >= 3

\* C21: once a location request whose body holds a timestamp t, 0 included,
\* has been handled, the vehicle's lastLocationUpdate is t and the events the
\* request recorded carry t.
C21_TimestampKept ==
  (/\ lastCall.op = "POST /api/location"
   /\ running = << >>
   /\ "timestamp" \in DOMAIN lastCall.body) =>
    LET v == lastCall.body.vehicleId
        t == lastCall.body.timestamp
        r == lastCall.result
    IN /\ getVehicleStatus(vehicleStore, v).lastLocationUpdate = t
       /\ r.eventTriggered =>
            /\ r.event.timestamp = t
            /\ vehicleStore[v].events[Len(vehicleStore[v].events)].timestamp = t

\* The steps of getVehicleStatus, getAllTrackedVehicles and getVehiclesInZone.
ReadStep ==
  /\ lastCall'.op \in {"GET /api/vehicle", "getAllTrackedVehicles",
                        "getVehiclesInZone"}
  /\ calls' = calls

\* The positions of the statuses of vehicle v in a list of statuses.
positionsOf(list, v) == {i \in 1..Len(list) : list[i].vehicleId = v}

\* C22: getStatus, listAll and filterByZone leave the vehicle store as it is
\* (every vehicle's location, zone, timestamp and history, and the set and
\* order of the tracked ids); listAll returns exactly one status, the
\* vehicle's getStatus, per tracked vehicle, and filterByZone(z) returns
\* exactly those of these statuses whose currentZone equals z.
C22_ReadOnly ==
  [][ReadStep =>
       /\ vehicleStore' = vehicleStore
       /\ keyOrder' = keyOrder
       /\ generated' = generated
       /\ lastCall'.op = "getAllTrackedVehicles" =>
            LET list == lastCall'.result
            IN /\ Len(list) = Cardinality(DOMAIN vehicleStore)
               /\ \A v \in DOMAIN vehicleStore :
                    \E i \in 1..Len(list) : list[i] = getVehicleStatus(vehicleStore, v)
       /\ lastCall'.op = "getVehiclesInZone" =>
            LET list == lastCall'.result
                z == lastCall'.zoneName
            IN /\ \A i \in 1..Len(list) :
                    /\ list[i].vehicleId \in DOMAIN vehicleStore
                    /\ list[i] = getVehicleStatus(vehicleStore, list[i].vehicleId)
                    /\ list[i].currentZone = z
               /\ \A v \in DOMAIN vehicleStore :
                    Cardinality(positionsOf(list, v))
                      = IF getVehicleStatus(vehicleStore, v).currentZone = z
                          THEN 1 ELSE 0]_vars

\* With one vehicle in Downtown and one outside every zone,
\* getVehiclesInZone("Downtown") returned the one status.
C22_Witness ==
  /\ lastCall.op = "getVehiclesInZone"
  /\ lastCall.zoneName = "Downtown"
  /\ Len(lastCall.result) = 1
  /\ Cardinality(DOMAIN vehicleStore) = 2
  /\ \E v \in DOMAIN vehicleStore : vehicleStore[v].location.currentZone = null

\* C23: for every tracked vehicle, if the stored current zone is a zone Z the
\* history is non-empty and its last event is Enter(Z); if it is none the
\* history is empty or its last event is an Exit.
C23_HistoryAgrees ==
  \A v \in DOMAIN vehicleStore :
    LET z == vehicleStore[v].location.currentZone
        events == vehicleStore[v].events
    IN IF z # null
         THEN /\ events # << >>
              /\ events[Len(events)].type = "enter"
              /\ events[Len(events)].zone = z
         ELSE events = << >> \/ events[Len(events)].type = "exit"

\* C24: in each vehicle's stored history any two adjacent events have
\* different types, and every Exit(Z) with a predecessor directly follows
\* Enter(Z) of the same zone Z.
C24_Alternates ==
  \A v \in DOMAIN vehicleStore :
    LET events == vehicleStore[v].events
    IN \A i \in 1..(Len(events) - 1) :
         /\ events[i].type # events[i + 1].type
         /\ events[i + 1].type = "exit" =>
              (events[i].type = "enter" /\ events[i].zone = events[i + 1].zone)

====
